---- MODULE Spec2Model ----
(***************************************************************************)
(* The repository state machine of the Git branching simulator             *)
(* (src/main.py): GitCommit, GitBranch, GitRepository and the load/save    *)
(* commands of GitSimulatorApp._process_command.                           *)
(*                                                                         *)
(* Python values are modelled as follows.                                  *)
(*   - str            a TLA+ string; "C" + str(n) is "C" \o ToString(n)    *)
(*   - None           the string None (no id, name or message of the       *)
(*                    bounded universe is equal to it)                     *)
(*   - dict           a function whose DOMAIN is the set of keys           *)
(*   - datetime       a record [second, microsecond]                       *)
(*   - isoformat text a sequence <<second>> or <<second, microsecond>>     *)
(***************************************************************************)
EXTENDS Integers, Sequences, FiniteSets, TLC

VARIABLES
    commits,         \* GitRepository.commits: commit id -> GitCommit
    branches,        \* GitRepository.branches: branch name -> GitBranch
    current_branch,  \* GitRepository.current_branch
    head,            \* GitRepository.head, an attribute only load_from_file sets
    files,           \* the file system: file name -> content
    now,             \* the wall clock read by datetime.datetime.now()
    result           \* what the last operation returned or raised

vars == <<commits, branches, current_branch, head, files, now, result>>

\* The fields of the active GitRepository object (GitSimulatorApp.repo).
repo == <<commits, branches, current_branch, head>>

----------------------------------------------------------------------------
\* Bounds of the model.

\* create_commit and merge_branches are taken only while fewer commits exist.
MaxCommits == 4

\* The clock runs in half seconds from 0 to MaxNow.
MaxNow == 1

\* With the files, the same operations are taken while fewer commits exist.
MaxAppCommits == 3

\* With files from anywhere, fewer still.
MaxExtCommits == 2

\* With a third branch name, as few.
MaxWideCommits == 2

\* The commit ids of foreign documents.
ForeignIds == {"C0", "C1"}

\* Branch names typed by the user.
BranchNames == {"master", "dev"}
WideBranchNames == BranchNames \cup {"fix"}

\* Commit messages typed by the user.
Messages == {"work"}

\* File names typed by the user.
FileNames == {"git_repo.json"}

----------------------------------------------------------------------------
\* Python values.

None == "None"

\* Python truthiness of an optional string: None and "" are falsy.
Truthy(v) == v # None /\ v # ""

\* dict.get(key) with the default None.
Get(d, k) == IF k \in DOMAIN d THEN d[k] ELSE None

\* The datetime of clock reading t (t counts half seconds).
datetime(t) == [second |-> t \div 2, microsecond |-> (t % 2) * 500000]

\* datetime.isoformat(): the fraction is written only when microsecond # 0.
isoformat(ts) ==
    IF ts.microsecond = 0 THEN <<ts.second>> ELSE <<ts.second, ts.microsecond>>

\* datetime.fromisoformat(): a missing fraction reads as microsecond 0.
fromisoformat(text) ==
    [second |-> text[1], microsecond |-> IF Len(text) >= 2 THEN text[2] ELSE 0]

\* strftime('%Y-%m-%d %H:%M:%S'): whole seconds, the fraction is dropped.
strftime(ts) == <<ts.second>>

----------------------------------------------------------------------------
\* GitCommit

\* GitCommit.__init__ at clock reading t.
GitCommit(commit_id, message, parent, second_parent, t) ==
    [id |-> commit_id, message |-> message, parent |-> parent,
     second_parent |-> second_parent, timestamp |-> datetime(t)]

GitCommit_to_dict(commit) ==
    [id |-> commit.id, message |-> commit.message, parent |-> commit.parent,
     second_parent |-> commit.second_parent,
     timestamp |-> isoformat(commit.timestamp)]

\* The keys GitCommit.from_dict reads with data[...], in the order it reads
\* them; second_parent is read with data.get.
CommitRequiredKeys == <<"id", "message", "parent", "timestamp">>

GitCommit_from_dict(data) ==
    [id |-> data["id"], message |-> data["message"], parent |-> data["parent"],
     second_parent |-> Get(data, "second_parent"),
     timestamp |-> fromisoformat(data["timestamp"])]

----------------------------------------------------------------------------
\* GitBranch

\* GitBranch._generate_color draws from this palette.
colors == <<"#2196f3", "#4caf50", "#9c27b0", "#ff9800", "#e91e63", "#607d8b">>

\* The part of the palette the model draws from.
Colors == {colors[1], colors[2]}

\* GitBranch.__init__ with the colour it ends with (color or the drawn one).
GitBranch(name, branch_head, color) ==
    [name |-> name, head |-> branch_head, color |-> color]

GitBranch_to_dict(branch) ==
    [name |-> branch.name, head |-> branch.head, color |-> branch.color]

\* The keys GitBranch.from_dict reads, in the order it reads them.
BranchRequiredKeys == <<"name", "head", "color">>

GitBranch_from_dict(data) ==
    GitBranch(data["name"], data["head"], data["color"])

----------------------------------------------------------------------------
\* Results

\* The graph of a result that is no graph.
NoGraph == [nodes |-> {}, edges |-> {}]

\* A (success, text) pair returned by an operation.
Returned(op, arg, ok, text) ==
    [op |-> op, arg |-> arg, raised |-> None, ok |-> ok, text |-> text,
     log |-> <<>>, graph |-> NoGraph]

\* An exception that leaves the operation.
Raised(op, arg, exception) ==
    [op |-> op, arg |-> arg, raised |-> exception, ok |-> FALSE, text |-> "",
     log |-> <<>>, graph |-> NoGraph]

\* A slip in the count: the id is that of the last commit made, so the new
\* commit takes its place.
NextCommitId_LastId == "C" \o ToString(Cardinality(DOMAIN commits) - 1)

\* A slip in the id: the branches are counted instead of the commits.
NextCommitId_CountsBranches == "C" \o ToString(Cardinality(DOMAIN branches))

\* "C" + the number of commits.
NextCommitId == "C" \o ToString(Cardinality(DOMAIN commits))

----------------------------------------------------------------------------
\* A slip in _initialize_repo: current_branch keeps the None that __init__
\* gave it.
InitRepo_NoCurrentBranch ==
    /\ now = 0
    /\ commits = ("C0" :> GitCommit("C0", "Initial commit", None, None, 0))
    /\ \E color \in Colors :
         branches = ("master" :> GitBranch("master", "C0", color))
    /\ current_branch = None
    /\ head = None
    /\ result = Returned("init", None, TRUE, "")

\* GitRepository.__init__ and _initialize_repo, as GitSimulatorApp.__init__
\* calls them.
InitRepo ==
    /\ now = 0
    /\ commits = ("C0" :> GitCommit("C0", "Initial commit", None, None, 0))
    /\ \E color \in Colors :
         branches = ("master" :> GitBranch("master", "C0", color))
    /\ current_branch = "master"
    /\ head = None
    /\ result = Returned("init", None, TRUE, "")

\* The application starts where no file exists yet.
Init ==
    /\ InitRepo
    /\ files = [f \in FileNames |-> [kind |-> "missing"]]

\* The application takes the next command once the last call has returned
\* (get_commit_log is the one call that may not).
Responsive == result.raised # "NeverReturns"

\* A slip in the parent: the new commit is hung under master's head, whatever
\* the current branch is.
parent_id_MasterHead == branches["master"].head

\* A slip in the order: the parent is read after the head has moved to the
\* new commit.
parent_id_AfterHeadMoved == NextCommitId

\* The head of the current branch: branch.head in create_commit,
\* current_head in create_branch, target_branch.head in merge_branches.
parent_id == branches[current_branch].head

\* A slip in create_commit: the branch head is not moved to the new commit.
create_commit_HeadNotMoved(message, t) ==
    /\ IF current_branch \notin DOMAIN branches
       THEN /\ result' = Returned("create_commit", message, FALSE,
                  "Error: Current branch '" \o current_branch \o "' not found")
            /\ UNCHANGED <<commits, now>>
       ELSE LET commit_id == NextCommitId
                new_commit == GitCommit(commit_id, message, parent_id, None, t)
            IN  /\ t >= now
                /\ now' = t
                /\ commits' =
                     [i \in DOMAIN commits \cup {commit_id} |->
                        IF i = commit_id THEN new_commit ELSE commits[i]]
                /\ result' = Returned("create_commit", message, TRUE,
                      "Created commit " \o commit_id \o ": " \o message)
    /\ UNCHANGED <<branches, current_branch, head, files>>

\* A slip in create_commit: branches that sit at one commit share a head, so
\* every branch at the current head moves with it.
create_commit_MovesAliases(message, t) ==
    /\ IF current_branch \notin DOMAIN branches
       THEN /\ result' = Returned("create_commit", message, FALSE,
                  "Error: Current branch '" \o current_branch \o "' not found")
            /\ UNCHANGED <<commits, branches, now>>
       ELSE LET commit_id == NextCommitId
                new_commit == GitCommit(commit_id, message, parent_id, None, t)
            IN  /\ t >= now
                /\ now' = t
                /\ commits' =
                     [i \in DOMAIN commits \cup {commit_id} |->
                        IF i = commit_id THEN new_commit ELSE commits[i]]
                /\ branches' =
                     [n \in DOMAIN branches |->
                        IF branches[n].head = parent_id
                        THEN [branches[n] EXCEPT !.head = commit_id]
                        ELSE branches[n]]
                /\ result' = Returned("create_commit", message, TRUE,
                      "Created commit " \o commit_id \o ": " \o message)
    /\ UNCHANGED <<current_branch, head, files>>

\* GitRepository.create_commit(message); datetime.now() reads t when the
\* commit is built.
create_commit(message, t) ==
    /\ IF current_branch \notin DOMAIN branches
       THEN /\ result' = Returned("create_commit", message, FALSE,
                  "Error: Current branch '" \o current_branch \o "' not found")
            /\ UNCHANGED <<commits, branches, now>>
       ELSE LET commit_id == NextCommitId
                new_commit == GitCommit(commit_id, message, parent_id, None, t)
            IN  /\ t >= now
                /\ now' = t
                /\ commits' =
                     [i \in DOMAIN commits \cup {commit_id} |->
                        IF i = commit_id THEN new_commit ELSE commits[i]]
                /\ branches' =
                     [branches EXCEPT ![current_branch].head = commit_id]
                /\ result' = Returned("create_commit", message, TRUE,
                      "Created commit " \o commit_id \o ": " \o message)
    /\ UNCHANGED <<current_branch, head, files>>

\* A slip in the check: no name counts as taken, so an existing branch is
\* replaced by a new one at the current head.
BranchExists_Never(name) == FALSE

\* name in self.branches.
BranchExists(name) == name \in DOMAIN branches

\* A slip in create_branch: the new branch is also checked out.
create_branch_ChecksOut(name, color) ==
    IF BranchExists(name) \/ current_branch \notin DOMAIN branches
    THEN /\ result' =
              IF BranchExists(name)
              THEN Returned("create_branch", name, FALSE,
                      "Error: Branch '" \o name \o "' already exists")
              ELSE Raised("create_branch", name, "KeyError")
         /\ UNCHANGED <<commits, branches, current_branch, head, files, now>>
    ELSE /\ branches' =
              [n \in DOMAIN branches \cup {name} |->
                 IF n = name THEN GitBranch(name, parent_id, color)
                 ELSE branches[n]]
         /\ current_branch' = name
         /\ result' = Returned("create_branch", name, TRUE,
               "Created branch '" \o name \o "' at commit " \o parent_id)
         /\ UNCHANGED <<commits, head, files, now>>

\* A slip in create_branch: the new branch starts at master's head, not at
\* the current branch's.
create_branch_AtMaster(name, color) ==
    IF BranchExists(name) \/ current_branch \notin DOMAIN branches
    THEN /\ result' =
              IF BranchExists(name)
              THEN Returned("create_branch", name, FALSE,
                      "Error: Branch '" \o name \o "' already exists")
              ELSE Raised("create_branch", name, "KeyError")
         /\ UNCHANGED <<commits, branches, current_branch, head, files, now>>
    ELSE /\ branches' =
              [n \in DOMAIN branches \cup {name} |->
                 IF n = name
                 THEN GitBranch(name, branches["master"].head, color)
                 ELSE branches[n]]
         /\ result' = Returned("create_branch", name, TRUE,
               "Created branch '" \o name \o "' at commit "
                  \o branches["master"].head)
         /\ UNCHANGED <<commits, current_branch, head, files, now>>

\* GitRepository.create_branch(name), the new branch drawing color.
create_branch(name, color) ==
    /\ IF BranchExists(name)
       THEN /\ result' = Returned("create_branch", name, FALSE,
                  "Error: Branch '" \o name \o "' already exists")
            /\ UNCHANGED branches
       ELSE IF current_branch \notin DOMAIN branches
       THEN \* self.branches[self.current_branch] raises
            /\ result' = Raised("create_branch", name, "KeyError")
            /\ UNCHANGED branches
       ELSE LET current_head == parent_id
            IN  /\ branches' =
                     [n \in DOMAIN branches \cup {name} |->
                        IF n = name THEN GitBranch(name, current_head, color)
                        ELSE branches[n]]
                /\ result' = Returned("create_branch", name, TRUE,
                      "Created branch '" \o name \o "' at commit "
                         \o current_head)
    /\ UNCHANGED <<commits, current_branch, head, files, now>>

\* A slip in checkout_branch: the name is not looked up.
checkout_branch_Unchecked(name) ==
    /\ current_branch' = name
    /\ result' = Returned("checkout_branch", name, TRUE,
          "Switched to branch '" \o name \o "'")
    /\ UNCHANGED <<commits, branches, head, files, now>>

\* GitRepository.checkout_branch(name).
checkout_branch(name) ==
    /\ IF name \notin DOMAIN branches
       THEN /\ result' = Returned("checkout_branch", name, FALSE,
                  "Error: Branch '" \o name \o "' not found")
            /\ UNCHANGED current_branch
       ELSE /\ current_branch' = name
            /\ result' = Returned("checkout_branch", name, TRUE,
                  "Switched to branch '" \o name \o "'")
    /\ UNCHANGED <<commits, branches, head, files, now>>

\* A slip in the check: the branches are compared, not their heads.
UpToDate_SameBranch(target_branch, source_branch) ==
    target_branch.name = source_branch.name

\* "Check if merge is needed": the two heads are compared.
UpToDate(target_branch, source_branch) ==
    target_branch.head = source_branch.head

\* A slip in the merge commit: the two parents are swapped.
merge_commit_ParentsSwapped(source_branch_name, t) ==
    GitCommit(NextCommitId,
              "Merge branch '" \o source_branch_name \o "' into "
                 \o current_branch,
              branches[source_branch_name].head,
              branches[current_branch].head, t)

\* The merge commit merge_branches builds at clock reading t.
merge_commit(source_branch_name, t) ==
    GitCommit(NextCommitId,
              "Merge branch '" \o source_branch_name \o "' into "
                 \o current_branch,
              branches[current_branch].head,
              branches[source_branch_name].head, t)

\* A slip in merge_branches: a source that is no branch is merged as a
\* branch without a head, the merge commit getting second_parent None.
merge_branches_MissingSourceMerged(source_branch_name, t) ==
    /\ IF current_branch \notin DOMAIN branches
       THEN /\ result' = Raised("merge_branches", source_branch_name,
                                "AttributeError")
            /\ UNCHANGED <<commits, branches, now>>
       ELSE IF /\ source_branch_name \in DOMAIN branches
               /\ UpToDate(branches[current_branch],
                           branches[source_branch_name])
       THEN /\ result' = Returned("merge_branches", source_branch_name, TRUE,
                  "Already up to date. Nothing to merge.")
            /\ UNCHANGED <<commits, branches, now>>
       ELSE LET commit_id == NextCommitId
                source_head ==
                    IF source_branch_name \in DOMAIN branches
                    THEN branches[source_branch_name].head ELSE None
            IN  /\ t >= now
                /\ now' = t
                /\ commits' =
                     [i \in DOMAIN commits \cup {commit_id} |->
                        IF i = commit_id
                        THEN GitCommit(commit_id,
                                 "Merge branch '" \o source_branch_name
                                    \o "' into " \o current_branch,
                                 branches[current_branch].head, source_head, t)
                        ELSE commits[i]]
                /\ branches' =
                     [branches EXCEPT ![current_branch].head = commit_id]
                /\ result' = Returned("merge_branches", source_branch_name,
                      TRUE,
                      "Merged '" \o source_branch_name \o "' into '"
                         \o current_branch \o "'")
    /\ UNCHANGED <<current_branch, head, files>>

\* GitRepository.merge_branches(source_branch_name); datetime.now() reads t
\* when the merge commit is built.
merge_branches(source_branch_name, t) ==
    /\ IF source_branch_name \notin DOMAIN branches
       THEN /\ result' = Returned("merge_branches", source_branch_name, FALSE,
                  "Error: Branch '" \o source_branch_name \o "' not found")
            /\ UNCHANGED <<commits, branches, now>>
       ELSE IF current_branch \notin DOMAIN branches
       THEN \* target_branch is None: target_branch.head raises
            /\ result' = Raised("merge_branches", source_branch_name,
                                "AttributeError")
            /\ UNCHANGED <<commits, branches, now>>
       ELSE IF UpToDate(branches[current_branch], branches[source_branch_name])
       THEN /\ result' = Returned("merge_branches", source_branch_name, TRUE,
                  "Already up to date. Nothing to merge.")
            /\ UNCHANGED <<commits, branches, now>>
       ELSE LET commit_id == NextCommitId
            IN  /\ t >= now
                /\ now' = t
                /\ commits' =
                     [i \in DOMAIN commits \cup {commit_id} |->
                        IF i = commit_id
                        THEN merge_commit(source_branch_name, t)
                        ELSE commits[i]]
                /\ branches' =
                     [branches EXCEPT ![current_branch].head = commit_id]
                /\ result' = Returned("merge_branches", source_branch_name,
                      TRUE,
                      "Merged '" \o source_branch_name \o "' into '"
                         \o current_branch \o "'")
    /\ UNCHANGED <<current_branch, head, files>>

----------------------------------------------------------------------------
\* GitRepository.get_commit_log: the while loop over parent links.

\* The commit ids the loop visits from current_commit_id, in order. The loop
\* stops at a falsy id and breaks at an id that is no key of commits; seen
\* holds the ids already visited, and the walk is cut where it would revisit
\* one (LogReturns tells whether the loop ends at all).
\* A slip in the loop: a merge commit is left through its second parent.
NextInLog_SecondParentFirst(commit) ==
    IF Truthy(commit.second_parent) THEN commit.second_parent
    ELSE commit.parent

\* current_commit_id = commit.parent: the loop's step.
NextInLog(commit) == commit.parent

RECURSIVE LogWalk(_, _)
LogWalk(current_commit_id, seen) ==
    IF ~Truthy(current_commit_id) \/ current_commit_id \notin DOMAIN commits
          \/ current_commit_id \in seen
    THEN <<>>
    ELSE <<current_commit_id>>
            \o LogWalk(NextInLog(commits[current_commit_id]),
                       seen \cup {current_commit_id})

\* Whether the loop from current_commit_id ends: it does not when the parent
\* links lead back to a commit already visited.
RECURSIVE LogReturns(_, _)
LogReturns(current_commit_id, seen) ==
    IF ~Truthy(current_commit_id) \/ current_commit_id \notin DOMAIN commits
    THEN TRUE
    ELSE IF current_commit_id \in seen
    THEN FALSE
    ELSE LogReturns(NextInLog(commits[current_commit_id]),
                    seen \cup {current_commit_id})

\* The record appended for one commit: its Commit, Message and Date lines.
LogRecord(commit) ==
    [Commit |-> commit.id, Message |-> commit.message,
     Date |-> strftime(commit.timestamp)]

get_commit_log ==
    /\ IF current_branch \notin DOMAIN branches
       THEN result' = Returned("get_commit_log", None, FALSE,
                               "Error: Current branch not found")
       ELSE LET start == branches[current_branch].head
                walk == LogWalk(start, {})
            IN  IF ~LogReturns(start, {})
                THEN result' = [op |-> "get_commit_log", arg |-> None,
                                raised |-> "NeverReturns", ok |-> FALSE,
                                text |-> "", log |-> <<>>,
                                graph |-> NoGraph]
                ELSE result' =
                       [Returned("get_commit_log", None, TRUE,
                                 IF walk = <<>> THEN "No commits yet" ELSE "")
                          EXCEPT !.log =
                            [k \in 1..Len(walk) |-> LogRecord(commits[walk[k]])]]
    /\ UNCHANGED <<commits, branches, current_branch, head, files, now>>

----------------------------------------------------------------------------
\* GitRepository.build_graph: a node per commit and an edge from each truthy
\* parent and second_parent to the commit (add_edge adds a node for an end
\* that is no commit).
Graph ==
    LET edges ==
            {<<commits[i].parent, i>> :
                i \in {j \in DOMAIN commits : Truthy(commits[j].parent)}}
              \cup {<<commits[i].second_parent, i>> :
                i \in {j \in DOMAIN commits :
                          Truthy(commits[j].second_parent)}}
    IN  [nodes |-> DOMAIN commits \cup {e[1] : e \in edges}, edges |-> edges]

\* The call of build_graph by GitSimulatorApp._update_graph.
build_graph ==
    /\ result' = [Returned("build_graph", None, TRUE, "")
                    EXCEPT !.graph = Graph]
    /\ UNCHANGED <<commits, branches, current_branch, head, files, now>>

----------------------------------------------------------------------------
\* Persistence.

\* A file that does not exist, and a file whose text json.load rejects.
Missing == [kind |-> "missing"]
Garbage == [kind |-> "garbage"]

\* A file holding the JSON document data.
JsonFile(data) == [kind |-> "json", data |-> data]

\* The document GitRepository.save_to_file builds.
SaveData ==
    [commits |-> [i \in DOMAIN commits |-> GitCommit_to_dict(commits[i])],
     branches |-> [n \in DOMAIN branches |-> GitBranch_to_dict(branches[n])],
     current_branch |-> current_branch]

\* The save command: GitRepository.save_to_file(filename) and its message.
save_to_file(filename) ==
    /\ files' = [files EXCEPT ![filename] = JsonFile(SaveData)]
    /\ result' = Returned("save", filename, TRUE,
                          "Repository saved to " \o filename)
    /\ UNCHANGED <<commits, branches, current_branch, head, now>>

\* str(KeyError(key)).
KeyError(key) == "'" \o key \o "'"

\* The first key of the sequence keys that the dict data lacks; None when it
\* has them all.
FirstMissingKey(data, keys) ==
    IF \A k \in 1..Len(keys) : keys[k] \in DOMAIN data THEN None
    ELSE keys[CHOOSE k \in 1..Len(keys) :
                 /\ keys[k] \notin DOMAIN data
                 /\ \A j \in 1..(k - 1) : keys[j] \in DOMAIN data]

\* The text str(e) of the first exception GitRepository.load_from_file raises
\* on the file content, None when it raises none. The document is read in
\* the order commits, branches, current_branch, head; GitCommit.from_dict
\* reads id, message, parent, timestamp and GitBranch.from_dict reads name,
\* head, color. (Where several records lack a key, the dict's order decides
\* which is reported; the documents of this model have at most one.)
LoadError(content) ==
    IF content.kind = "missing" THEN "[Errno 2] No such file or directory"
    ELSE IF content.kind = "garbage" THEN "Expecting value"
    ELSE LET data == content.data
             BadCommits ==
                 {i \in DOMAIN data["commits"] :
                    FirstMissingKey(data["commits"][i], CommitRequiredKeys)
                       # None}
             BadBranches ==
                 {n \in DOMAIN data["branches"] :
                    FirstMissingKey(data["branches"][n], BranchRequiredKeys)
                       # None}
         IN
         IF "commits" \notin DOMAIN data THEN KeyError("commits")
         ELSE IF BadCommits # {}
         THEN KeyError(FirstMissingKey(
                 data["commits"][CHOOSE i \in BadCommits : TRUE],
                 CommitRequiredKeys))
         ELSE IF "branches" \notin DOMAIN data THEN KeyError("branches")
         ELSE IF BadBranches # {}
         THEN KeyError(FirstMissingKey(
                 data["branches"][CHOOSE n \in BadBranches : TRUE],
                 BranchRequiredKeys))
         ELSE IF "current_branch" \notin DOMAIN data
         THEN KeyError("current_branch")
         ELSE IF "head" \notin DOMAIN data THEN KeyError("head")
         ELSE None

\* The repository GitRepository.load_from_file returns when it raises nothing:
\* <<commits, branches, current_branch, head>>.
load_from_file(content) ==
    LET data == content.data IN
    <<[i \in DOMAIN data["commits"] |-> GitCommit_from_dict(data["commits"][i])],
      [n \in DOMAIN data["branches"] |->
          GitBranch_from_dict(data["branches"][n])],
      data["current_branch"],
      data["head"]>>

\* A slip in the load command: the active repository is filled in place, so
\* a document that fails at its last key, head, has already replaced commits,
\* branches and current_branch.
LoadCommand_InPlace(filename) ==
    /\ IF files[filename].kind = "missing"
       THEN /\ result' = Returned("load", filename, FALSE,
                  "Error: File " \o filename \o " not found")
            /\ UNCHANGED repo
       ELSE IF LoadError(files[filename]) = KeyError("head")
       THEN LET data == files[filename].data
            IN  /\ commits' = [i \in DOMAIN data["commits"] |->
                                 GitCommit_from_dict(data["commits"][i])]
                /\ branches' = [n \in DOMAIN data["branches"] |->
                                  GitBranch_from_dict(data["branches"][n])]
                /\ current_branch' = data["current_branch"]
                /\ UNCHANGED head
                /\ result' = Returned("load", filename, FALSE,
                      "Error loading repository: "
                         \o LoadError(files[filename]))
       ELSE IF LoadError(files[filename]) # None
       THEN /\ result' = Returned("load", filename, FALSE,
                  "Error loading repository: " \o LoadError(files[filename]))
            /\ UNCHANGED repo
       ELSE LET loaded == load_from_file(files[filename])
            IN  /\ commits' = loaded[1]
                /\ branches' = loaded[2]
                /\ current_branch' = loaded[3]
                /\ head' = loaded[4]
                /\ result' = Returned("load", filename, TRUE,
                      "Repository loaded from " \o filename)
    /\ UNCHANGED <<files, now>>

\* The load command of GitSimulatorApp._process_command.
LoadCommand(filename) ==
    /\ IF files[filename].kind = "missing"
       THEN /\ result' = Returned("load", filename, FALSE,
                  "Error: File " \o filename \o " not found")
            /\ UNCHANGED repo
       ELSE IF LoadError(files[filename]) # None
       THEN /\ result' = Returned("load", filename, FALSE,
                  "Error loading repository: " \o LoadError(files[filename]))
            /\ UNCHANGED repo
       ELSE LET loaded == load_from_file(files[filename])
            IN  /\ commits' = loaded[1]
                /\ branches' = loaded[2]
                /\ current_branch' = loaded[3]
                /\ head' = loaded[4]
                /\ result' = Returned("load", filename, TRUE,
                      "Repository loaded from " \o filename)
    /\ UNCHANGED <<files, now>>

----------------------------------------------------------------------------
\* The repository operations with branch names drawn from names, taken while
\* fewer than max_commits commits exist.
OperationsOn(names, max_commits) ==
    \/ \E message \in Messages, t \in 0..MaxNow :
         /\ Responsive
         /\ Cardinality(DOMAIN commits) < max_commits
         /\ create_commit(message, t)
    \/ \E name \in names, color \in Colors :
         Responsive /\ create_branch(name, color)
    \/ \E name \in names : Responsive /\ checkout_branch(name)
    \/ \E name \in names, t \in 0..MaxNow :
         /\ Responsive
         /\ Cardinality(DOMAIN commits) < max_commits
         /\ merge_branches(name, t)
    \/ Responsive /\ get_commit_log
    \/ Responsive /\ build_graph

Operations(max_commits) == OperationsOn(BranchNames, max_commits)

\* The lifetime of the repository GitSimulatorApp constructs: the repository
\* operations from GitRepository.__init__ on.
Next == Operations(MaxCommits)

Spec == Init /\ [][Next]_vars

\* The same lifetime with a third branch name, so that a branch can be
\* created or merged while neither it nor the current branch is master.
NextWide == OperationsOn(WideBranchNames, MaxWideCommits)

SpecWide == Init /\ [][NextWide]_vars

\* The commands of the application, with the files only the save command
\* writes.
NextApp ==
    \/ Operations(MaxAppCommits)
    \/ \E filename \in FileNames : Responsive /\ save_to_file(filename)
    \/ \E filename \in FileNames : Responsive /\ LoadCommand(filename)

SpecApp == Init /\ [][NextApp]_vars

----------------------------------------------------------------------------
\* Files written by someone other than the save command.

\* A commit record as an editor writes it: no second_parent key.
ForeignCommit(commit_id, parent) ==
    [id |-> commit_id, message |-> "edited", parent |-> parent,
     timestamp |-> <<0>>]

\* The commit maps of foreign documents: any set of ForeignIds as keys, each
\* commit with any parent, present or not, so dangling and cyclic parent
\* links occur.
ForeignCommitMaps ==
    UNION {[S -> {None} \cup ForeignIds] : S \in SUBSET ForeignIds}

\* A complete document: one branch master at C0, and a head key.
ForeignData(parents, current) ==
    [commits |-> [i \in DOMAIN parents |-> ForeignCommit(i, parents[i])],
     branches |-> ("master" :> [name |-> "master", head |-> "C0",
                                color |-> colors[1]]),
     current_branch |-> current,
     head |-> "C0"]

CompleteForeignData ==
    {ForeignData(parents, current) :
        parents \in ForeignCommitMaps, current \in BranchNames}

\* The document data without the key k.
WithoutKey(data, k) == [j \in DOMAIN data \ {k} |-> data[j]]

\* Documents lacking a key the loader reads: a top-level key, a commit's
\* timestamp, or a branch's color.
IncompleteForeignData ==
    LET data == ForeignData(("C0" :> None), "master") IN
    {WithoutKey(data, k) : k \in DOMAIN data}
      \cup {[data EXCEPT !["commits"] =
                ("C0" :> WithoutKey(data["commits"]["C0"], "timestamp"))],
            [data EXCEPT !["branches"] =
                ("master" :> WithoutKey(data["branches"]["master"], "color"))]}

ForeignContents ==
    {Missing, Garbage}
      \cup {JsonFile(data) : data \in CompleteForeignData}
      \cup {JsonFile(data) : data \in IncompleteForeignData}

\* The application starts beside files someone else has written.
InitExt ==
    /\ InitRepo
    /\ files \in [FileNames -> ForeignContents]

\* The commands of the application with files from anywhere.
NextExt ==
    \/ Operations(MaxExtCommits)
    \/ \E filename \in FileNames : Responsive /\ save_to_file(filename)
    \/ \E filename \in FileNames : Responsive /\ LoadCommand(filename)

SpecExt == InitExt /\ [][NextExt]_vars

----------------------------------------------------------------------------
\* Vocabulary of the properties.

\* The id "C" + k.
CommitIdOf(k) == "C" \o ToString(k)

\* Commit id a was allocated before commit id b: a is "C" + j and b is
\* "C" + k with j < k.
AllocatedBefore(a, b) ==
    \E k \in 0..Cardinality(DOMAIN commits), j \in 0..Cardinality(DOMAIN commits) :
        j < k /\ CommitIdOf(j) = a /\ CommitIdOf(k) = b

\* The step adds exactly one commit, under the id new_id, and leaves every
\* existing commit as it was.
AddsOneCommit(new_id) ==
    /\ new_id \notin DOMAIN commits
    /\ DOMAIN commits' = DOMAIN commits \cup {new_id}
    /\ \A i \in DOMAIN commits : commits'[i] = commits[i]

\* The last operation was op and it returned success.
Succeeded(op) == result.op = op /\ result.raised = None /\ result.ok

----------------------------------------------------------------------------
\* C3. Commit ids never collide and are allocated in increasing order: the
\* ids present are always exactly C0..C(n-1), each commit stored under its own
\* id, and whenever commits changes, the change is one new commit under the id
\* "C" + (number of commits before the call), which was no key of commits.
C3_IdsDense ==
    /\ DOMAIN commits =
         {CommitIdOf(k) : k \in 0..(Cardinality(DOMAIN commits) - 1)}
    /\ \A i \in DOMAIN commits : commits[i].id = i

C3_Allocation ==
    commits' # commits =>
        LET new_id == CommitIdOf(Cardinality(DOMAIN commits))
        IN  /\ AddsOneCommit(new_id)
            /\ commits'[new_id].id = new_id
            /\ \A i \in DOMAIN commits : AllocatedBefore(i, new_id)'

C3_CommitIdsNeverCollide == []C3_IdsDense /\ [][C3_Allocation]_vars

\* Four commits, the last allocated by a merge after a create_commit.
C3_Witness ==
    /\ Cardinality(DOMAIN commits) >= 4
    /\ Succeeded("merge_branches")
    /\ \E i \in DOMAIN commits :
         commits[i].second_parent # None /\ branches[current_branch].head = i

----------------------------------------------------------------------------
\* C4. No dangling references and no cycles: every parent and second_parent
\* that is not None, and every branch head, is the id of a commit in commits;
\* each parent was allocated before its child; C0 is the only commit whose
\* parent is None.
C4_NoDanglingNoCycles ==
    /\ \A i \in DOMAIN commits :
         /\ commits[i].parent # None =>
              /\ commits[i].parent \in DOMAIN commits
              /\ AllocatedBefore(commits[i].parent, i)
         /\ commits[i].second_parent # None =>
              /\ commits[i].second_parent \in DOMAIN commits
              /\ AllocatedBefore(commits[i].second_parent, i)
         /\ commits[i].parent = None <=> i = "C0"
    /\ \A n \in DOMAIN branches : branches[n].head \in DOMAIN commits

\* A merge commit exists and two branches point at different commits.
C4_Witness ==
    /\ \E i \in DOMAIN commits : commits[i].second_parent # None
    /\ \E n, m \in DOMAIN branches : branches[n].head # branches[m].head

----------------------------------------------------------------------------
\* C5. merge_branches(source), for an existing source branch whose head
\* differs from the current branch's head, succeeds, adds exactly one commit
\* whose parent is the current branch's head before the call and whose
\* second_parent is the source branch's head, and moves the current branch's
\* head to that commit.
C5_MergeStep ==
    \A source \in BranchNames, t \in 0..MaxNow :
        ( /\ merge_branches(source, t)
          /\ source \in DOMAIN branches
          /\ current_branch \in DOMAIN branches
          /\ branches[source].head # branches[current_branch].head )
        => \E new_id \in DOMAIN commits' :
              /\ AddsOneCommit(new_id)
              /\ commits'[new_id].parent = branches[current_branch].head
              /\ commits'[new_id].second_parent = branches[source].head
              /\ branches'[current_branch].head = new_id
              /\ result'.raised = None /\ result'.ok

C5_MergeAddsTwoParentCommit == [][C5_MergeStep]_vars

\* A source merged a second time: two merge commits with the same
\* second_parent, the later one on top of the earlier.
C5_Witness ==
    /\ Succeeded("merge_branches")
    /\ \E i, j \in DOMAIN commits :
         /\ commits[i].second_parent # None
         /\ commits[j].second_parent = commits[i].second_parent
         /\ commits[j].parent = i
         /\ branches[current_branch].head = j

----------------------------------------------------------------------------
\* C6. merge_branches(source), when the source branch's head equals the
\* current branch's head (source = current included), returns success and
\* changes no commit, no branch and not current_branch; the state being the
\* same, a repetition is the same no-op.
C6_UpToDateStep ==
    \A source \in BranchNames, t \in 0..MaxNow :
        ( /\ merge_branches(source, t)
          /\ source \in DOMAIN branches
          /\ current_branch \in DOMAIN branches
          /\ branches[source].head = branches[current_branch].head )
        => /\ result'.raised = None /\ result'.ok
           /\ UNCHANGED <<commits, branches, current_branch>>

C6_MergeOfEqualHeadsIsNoOp == [][C6_UpToDateStep]_vars

\* An up-to-date merge of another branch that points at the same commit.
C6_Witness ==
    /\ Succeeded("merge_branches")
    /\ result.text = "Already up to date. Nothing to merge."
    /\ result.arg # current_branch
    /\ Cardinality(DOMAIN commits) >= 2

----------------------------------------------------------------------------
\* C7. get_commit_log lists exactly the first-parent chain from the current
\* branch's head to the root, one record per commit in that order: the first
\* record is the head, each next record is the parent of the one before, the
\* last record's commit has no parent, and a second_parent is never the next
\* record.
C7_LogIsFirstParentChain ==
    Succeeded("get_commit_log") =>
        LET log == result.log
            id(k) == log[k].Commit
        IN  /\ Len(log) >= 1
            /\ id(1) = branches[current_branch].head
            /\ \A k \in 1..Len(log) :
                 /\ id(k) \in DOMAIN commits
                 /\ log[k].Message = commits[id(k)].message
                 /\ log[k].Date = <<commits[id(k)].timestamp.second>>
                 /\ IF k < Len(log)
                    THEN /\ commits[id(k)].parent = id(k + 1)
                         /\ commits[id(k)].second_parent # id(k + 1)
                    ELSE commits[id(k)].parent = None
            /\ \A k, j \in 1..Len(log) : id(k) = id(j) => k = j

\* A log of a merge commit whose second parent, work of the merged-in branch,
\* is not listed.
C7_Witness ==
    /\ Succeeded("get_commit_log")
    /\ Len(result.log) >= 2
    /\ \E k \in 1..Len(result.log) :
         /\ commits[result.log[k].Commit].second_parent # None
         /\ \A j \in 1..Len(result.log) :
              result.log[j].Commit # commits[result.log[k].Commit].second_parent

----------------------------------------------------------------------------
\* C8. create_commit(message), when the current branch resolves, succeeds,
\* adds exactly one commit with that message whose parent is the current
\* branch's head before the call and whose second_parent is None, and moves
\* the current branch's head to it; on a fresh repository the commit is C1
\* with parent C0 and master.head becomes C1.
FreshRepository ==
    /\ DOMAIN commits = {"C0"}
    /\ DOMAIN branches = {"master"}
    /\ branches["master"].head = "C0"
    /\ current_branch = "master"

C8_CommitStep ==
    \A message \in Messages, t \in 0..MaxNow :
        (create_commit(message, t) /\ current_branch \in DOMAIN branches)
        => /\ \E new_id \in DOMAIN commits' :
                /\ AddsOneCommit(new_id)
                /\ commits'[new_id].message = message
                /\ commits'[new_id].parent = branches[current_branch].head
                /\ commits'[new_id].second_parent = None
                /\ branches'[current_branch].head = new_id
           /\ result'.raised = None /\ result'.ok
           /\ FreshRepository =>
                /\ DOMAIN commits' = {"C0", "C1"}
                /\ commits'["C1"].parent = "C0"
                /\ branches'["master"].head = "C1"

C8_CreateCommitAppends == [][C8_CommitStep]_vars

\* The first commit on a fresh repository.
C8_Witness ==
    /\ Succeeded("create_commit")
    /\ DOMAIN commits = {"C0", "C1"}
    /\ DOMAIN branches = {"master"}
    /\ branches["master"].head = "C1"

----------------------------------------------------------------------------
\* C1. In every reachable state, the state a load installs included,
\* current_branch is a key of branches: a document whose current_branch names
\* no loaded branch is not installed as the repository.
C1_CurrentBranchResolves == current_branch \in DOMAIN branches

----------------------------------------------------------------------------
\* C2. Round trip: load(f) of the file save(f) wrote from the repository
\* succeeds and yields the same commits, branches and current branch.
C2_RoundTripStep ==
    \A filename \in FileNames :
        (LoadCommand(filename) /\ files[filename] = JsonFile(SaveData))
        => /\ result'.raised = None /\ result'.ok
           /\ commits' = commits
           /\ branches' = branches
           /\ current_branch' = current_branch

C2_SaveLoadRoundTrip == [][C2_RoundTripStep]_vars

----------------------------------------------------------------------------
\* C9. When current_branch does not resolve to a branch, create_commit,
\* create_branch and merge_branches return a failure result and do not raise.
C9_FailureIsReturnedNotRaised ==
    ( /\ result.op \in {"create_commit", "create_branch", "merge_branches"}
      /\ current_branch \notin DOMAIN branches )
    => result.raised = None /\ ~result.ok

----------------------------------------------------------------------------
\* C10. A load command that fails (file missing, text unparsable, or a
\* document lacking a key the loader reads) reports an error message, leaves
\* commits, branches and current_branch of the active repository unchanged
\* and the application ready for the next command; the active repository is
\* replaced only by a load that succeeds.
TopLevelKeys == {"commits", "branches", "current_branch", "head"}

CannotBeLoaded(content) ==
    \/ content.kind \in {"missing", "garbage"}
    \/ /\ content.kind = "json"
       /\ \/ ~(TopLevelKeys \subseteq DOMAIN content.data)
          \/ \E i \in DOMAIN content.data["commits"] :
               ~({"id", "message", "parent", "timestamp"}
                    \subseteq DOMAIN content.data["commits"][i])
          \/ \E n \in DOMAIN content.data["branches"] :
               ~({"name", "head", "color"}
                    \subseteq DOMAIN content.data["branches"][n])

C10_LoadStep ==
    \A filename \in FileNames :
        LoadCommand(filename) =>
            /\ CannotBeLoaded(files[filename]) =>
                 /\ result'.raised = None /\ ~result'.ok
                 /\ result'.text # ""
                 /\ UNCHANGED <<commits, branches, current_branch, head>>
                 /\ Responsive'
            /\ <<commits, branches, current_branch>>'
                  # <<commits, branches, current_branch>> =>
                 /\ result'.ok
                 /\ ~CannotBeLoaded(files[filename])

C10_FailedLoadKeepsRepository == [][C10_LoadStep]_vars

\* A failed load of a document lacking a key, with a repository that has
\* grown since construction still in place.
C10_Witness ==
    /\ result.op = "load" /\ ~result.ok
    /\ files[result.arg].kind = "json"
    /\ Cardinality(DOMAIN commits) >= 2
    /\ Cardinality(DOMAIN branches) >= 2
    /\ head = None

----------------------------------------------------------------------------
\* C11. create_branch(name) with a name that is already a branch returns
\* failure and leaves branches (names, heads, colors), commits and
\* current_branch unchanged.
C11_DuplicateStep ==
    \A name \in BranchNames, color \in Colors :
        (create_branch(name, color) /\ name \in DOMAIN branches)
        => /\ result'.raised = None /\ ~result'.ok
           /\ UNCHANGED <<branches, commits, current_branch>>

C11_DuplicateBranchRejected == [][C11_DuplicateStep]_vars

\* A refused create_branch of a branch that points elsewhere than the current
\* branch does.
C11_Witness ==
    /\ result.op = "create_branch" /\ result.raised = None /\ ~result.ok
    /\ result.arg \in DOMAIN branches
    /\ branches[result.arg].head # branches[current_branch].head

----------------------------------------------------------------------------
\* C12. checkout_branch(name) with a name that is no branch returns failure
\* and leaves current_branch, branches and commits unchanged.
C12_UnknownCheckoutStep ==
    \A name \in BranchNames :
        (checkout_branch(name) /\ name \notin DOMAIN branches)
        => /\ result'.raised = None /\ ~result'.ok
           /\ UNCHANGED <<current_branch, branches, commits>>

C12_UnknownCheckoutRejected == [][C12_UnknownCheckoutStep]_vars

\* A refused checkout of a name that is no branch.
C12_Witness ==
    /\ result.op = "checkout_branch" /\ result.raised = None /\ ~result.ok
    /\ result.arg \notin DOMAIN branches
    /\ current_branch \in DOMAIN branches

----------------------------------------------------------------------------
\* C13. merge_branches(source) with a source that is no branch returns
\* failure, creates no commit, moves no branch head and leaves current_branch
\* unchanged.
C13_UnknownSourceStep ==
    \A source \in BranchNames, t \in 0..MaxNow :
        (merge_branches(source, t) /\ source \notin DOMAIN branches)
        => /\ result'.raised = None /\ ~result'.ok
           /\ UNCHANGED <<commits, branches, current_branch>>

C13_UnknownSourceRejected == [][C13_UnknownSourceStep]_vars

\* A refused merge of a name that is no branch, into a branch with commits of
\* its own.
C13_Witness ==
    /\ result.op = "merge_branches" /\ result.raised = None /\ ~result.ok
    /\ result.arg \notin DOMAIN branches
    /\ Cardinality(DOMAIN commits) >= 2

----------------------------------------------------------------------------
\* C14. checkout_branch is the only repository operation that changes
\* current_branch, and it changes nothing else: a successful
\* checkout_branch(name) sets current_branch to name and leaves commits and
\* branches as they were; create_commit, create_branch, merge_branches,
\* get_commit_log and build_graph leave current_branch as it was.
C14_Step ==
    /\ current_branch' # current_branch =>
         \E name \in BranchNames :
             checkout_branch(name) /\ name \in DOMAIN branches
    /\ \A name \in BranchNames :
         (checkout_branch(name) /\ name \in DOMAIN branches)
         => /\ current_branch' = name
            /\ result'.raised = None /\ result'.ok
            /\ UNCHANGED <<commits, branches>>
    /\ ( \/ \E message \in Messages, t \in 0..MaxNow :
              create_commit(message, t)
         \/ \E name \in BranchNames, color \in Colors :
              create_branch(name, color)
         \/ \E name \in BranchNames, t \in 0..MaxNow : merge_branches(name, t)
         \/ get_commit_log
         \/ build_graph )
       => UNCHANGED current_branch

C14_OnlyCheckoutChangesCurrentBranch == [][C14_Step]_vars

\* A checkout that moved to another branch, whose head is not the root.
C14_Witness ==
    /\ Succeeded("checkout_branch")
    /\ current_branch = result.arg
    /\ current_branch # "master"
    /\ branches[current_branch].head # branches["master"].head

----------------------------------------------------------------------------
\* C15. create_branch with a name that is not yet a branch succeeds and adds
\* exactly one branch, of that name, whose head is the head of the current
\* branch at the time of the call; every other branch, every commit and
\* current_branch stay as they were (the new branch is not checked out).
C15_CreateStep ==
    \A name \in WideBranchNames, color \in Colors :
        (create_branch(name, color) /\ name \notin DOMAIN branches)
        => /\ result'.raised = None /\ result'.ok
           /\ DOMAIN branches' = DOMAIN branches \cup {name}
           /\ branches'[name].name = name
           /\ branches'[name].head = branches[current_branch].head
           /\ \A other \in DOMAIN branches : branches'[other] = branches[other]
           /\ UNCHANGED <<commits, current_branch>>

C15_CreateBranchAddsOneBranchAtHead == [][C15_CreateStep]_vars

\* A branch created while the current branch was not master and had moved
\* past master: the new head is the current branch's, not master's, and the
\* new branch is not checked out.
C15_Witness ==
    /\ Succeeded("create_branch")
    /\ result.arg \in DOMAIN branches
    /\ result.arg # current_branch
    /\ current_branch # "master"
    /\ branches[result.arg].head = branches[current_branch].head
    /\ branches[result.arg].head # branches["master"].head

----------------------------------------------------------------------------
\* C16. A newly constructed repository holds exactly one commit, C0, with the
\* message "Initial commit", parent None and second_parent None; exactly one
\* branch, master, whose head is C0; and current_branch is "master".
C16_NewRepository ==
    result.op = "init"
    => /\ DOMAIN commits = {"C0"}
       /\ commits["C0"].id = "C0"
       /\ commits["C0"].message = "Initial commit"
       /\ commits["C0"].parent = None
       /\ commits["C0"].second_parent = None
       /\ DOMAIN branches = {"master"}
       /\ branches["master"].name = "master"
       /\ branches["master"].head = "C0"
       /\ current_branch = "master"

\* The repository as the constructor leaves it, before any operation.
C16_Witness ==
    /\ result.op = "init"
    /\ Cardinality(DOMAIN commits) = 1
    /\ Cardinality(DOMAIN branches) = 1
    /\ current_branch \in DOMAIN branches

----------------------------------------------------------------------------
\* C17. Branch heads are independent: create_commit and merge_branches move
\* only the head of the current branch; every other branch, the merge source
\* and a branch created at the commit the current branch is at included,
\* is the same after the call, and no branch is added or removed.
C17_HeadStep ==
    ( \/ \E message \in Messages, t \in 0..MaxNow : create_commit(message, t)
      \/ \E source \in BranchNames, t \in 0..MaxNow :
           merge_branches(source, t) )
    => /\ DOMAIN branches' = DOMAIN branches
       /\ \A other \in DOMAIN branches :
            other # current_branch => branches'[other] = branches[other]

C17_OnlyCurrentHeadMoves == [][C17_HeadStep]_vars

\* A commit made while another branch sat at the same commit: the other
\* branch is still there, one commit behind.
C17_Witness ==
    /\ Succeeded("create_commit")
    /\ \E other \in DOMAIN branches :
         /\ other # current_branch
         /\ branches[other].head = commits[branches[current_branch].head].parent

\* A merge that built a commit: the source is still at the second parent.
C17_MergeWitness ==
    /\ Succeeded("merge_branches")
    /\ result.arg \in DOMAIN branches
    /\ result.arg # current_branch
    /\ branches[result.arg].head
         = commits[branches[current_branch].head].second_parent

----------------------------------------------------------------------------
\* C18. Commits and branches are append-only under create_commit,
\* create_branch, checkout_branch and merge_branches: a commit id in commits
\* stays there with the same message, parent, second_parent and timestamp,
\* and a branch name in branches is never removed (only its head may change).
C18_AppendStep ==
    ( \/ \E message \in Messages, t \in 0..MaxNow : create_commit(message, t)
      \/ \E name \in BranchNames, color \in Colors : create_branch(name, color)
      \/ \E name \in BranchNames : checkout_branch(name)
      \/ \E source \in BranchNames, t \in 0..MaxNow :
           merge_branches(source, t) )
    => /\ DOMAIN commits \subseteq DOMAIN commits'
       /\ \A i \in DOMAIN commits :
            /\ commits'[i].id = commits[i].id
            /\ commits'[i].message = commits[i].message
            /\ commits'[i].parent = commits[i].parent
            /\ commits'[i].second_parent = commits[i].second_parent
            /\ commits'[i].timestamp = commits[i].timestamp
       /\ DOMAIN branches \subseteq DOMAIN branches'
       /\ \A n \in DOMAIN branches :
            /\ branches'[n].name = branches[n].name
            /\ branches'[n].color = branches[n].color

C18_AppendOnly == [][C18_AppendStep]_vars

\* A merge commit made after ordinary commits and a second branch: the
\* earlier commits and both branches are still there.
C18_Witness ==
    /\ Succeeded("merge_branches")
    /\ Cardinality(DOMAIN commits) >= 3
    /\ Cardinality(DOMAIN branches) >= 2
    /\ Truthy(commits[branches[current_branch].head].second_parent)

----------------------------------------------------------------------------
\* C19. A branch's head only fast-forwards: when create_commit or
\* merge_branches changes a branch's head, the old head is the first parent
\* of the new head; so every commit that was a branch's head, the commit the
\* branch was created at included, stays on the first-parent chain of the
\* branch's head in every later state.

\* The ids met from commit id i by following parent in the commit map cs, i
\* included, stopping at an id already met or not in cs.
RECURSIVE FirstParentChain(_, _, _)
FirstParentChain(cs, i, met) ==
    IF i \in met \/ i \notin DOMAIN cs
    THEN met
    ELSE FirstParentChain(cs, cs[i].parent, met \cup {i})

C19_HeadStep ==
    \A n \in DOMAIN branches :
        /\ n \in DOMAIN branches'
        /\ branches'[n].head # branches[n].head
             => /\ \/ \E message \in Messages, t \in 0..MaxNow :
                        create_commit(message, t)
                   \/ \E source \in BranchNames, t \in 0..MaxNow :
                        merge_branches(source, t)
                /\ branches'[n].head \in DOMAIN commits'
                /\ commits'[branches'[n].head].parent = branches[n].head
        /\ FirstParentChain(commits, branches[n].head, {})
             \subseteq FirstParentChain(commits', branches'[n].head, {})

\* A branch created by create_branch starts on the chain of the branch it was
\* created from.
C19_BranchStep ==
    \A n \in DOMAIN branches' \ DOMAIN branches :
        branches'[n].head = branches[current_branch].head

C19_HeadOnlyFastForwards == [][C19_HeadStep /\ C19_BranchStep]_vars

\* A branch other than master whose head moved by a commit and then by a
\* merge commit: the commit it was created at and the commit it moved to are
\* both on the first-parent chain of its head.
C19_Witness ==
    /\ Succeeded("merge_branches")
    /\ current_branch # "master"
    /\ Truthy(commits[branches[current_branch].head].second_parent)
    /\ Cardinality(FirstParentChain(commits, branches[current_branch].head, {}))
         >= 3

----------------------------------------------------------------------------
\* C20. get_commit_log terminates in every reachable state, the states
\* installed by load included: the parent walk from the head of the current
\* branch visits each commit at most once and stops at a commit whose parent
\* is None, which is C0.
C20_LogTerminates ==
    result.op = "get_commit_log"
    => /\ result.raised # "NeverReturns"
       /\ \A j, k \in 1..Len(result.log) :
            result.log[j].Commit = result.log[k].Commit => j = k

====
